---- MODULE Spec2Model ----
(***************************************************************************)
(* go-carbon: the file logger (logging/logger.go) and the process entry    *)
(* point (go-carbon.go: init, main).                                       *)
(*                                                                         *)
(* Threads are goroutines.  Every thread has one program counter; the      *)
(* positions inside FileLogger.Reopen ("R_open", "R_setout", "R_close")    *)
(* are shared by all its callers, and After(t) is the position the caller  *)
(* continues at.  Log writes go through logrus, which reads its output     *)
(* and writes to it under its own mutex, and logrus.SetOutput takes the    *)
(* same mutex: a write is one step, and so is SetOutput.                   *)
(*                                                                         *)
(* Spec is the logger used as a package by one caller, SpecTest adds the   *)
(* Test helper run by a second goroutine, SpecOpen2 has two callers of     *)
(* Open, SpecMain is the process (init and main) under signals, and        *)
(* SpecMainFair is SpecMain with its goroutines scheduled fairly.          *)
(***************************************************************************)
EXTENDS Naturals, Integers, Sequences, FiniteSets, TLC

\* ------------------------------------------------------------- bounds
MaxOps == 3        \* Open calls, renames by the rotation tool and signals, together

\* ---------------------------------------------------------- constants
ReopenChanCap == 16   \* make(chan os.Signal, 16)
ReloadChanCap == 1    \* make(chan os.Signal, 1)
Usr2ChanCap == 1      \* make(chan os.Signal, 1)

Paths == {"a"}
Files == {""} \cup Paths
\* Goroutines: callers of the package, main, the three signal listeners and
\* the watcher goroutines fsWatch starts.
Caller1 == <<"caller", 1>>
Caller2 == <<"caller", 2>>
Callers == {Caller1, Caller2}
Main == <<"main", 0>>
Hup == <<"hup", 0>>
Usr2 == <<"usr2", 0>>
Reload == <<"reload", 0>>
W(i) == <<"watcher", i>>
Watchers == {W(i) : i \in 1..MaxOps}
Free == <<"free", 0>>  \* the mutex is not held
Stderr == 0           \* os.Stderr as a value of the output stream
NoFd == 0             \* fd == nil
NoChan == 0           \* watcherDone == nil
Buffer == -1          \* Test's buffer as a value of the output stream
NilFile == -2         \* a nil *os.File as a value of the output stream

VARIABLES
  filename,     \* FileLogger.filename
  fd,           \* FileLogger.fd: index into handles, or NoFd
  watcherDone,  \* FileLogger.watcherDone: a channel id, or NoChan
  mu,           \* FileLogger.RWMutex: the thread holding it exclusively, or Free
  out,          \* logrus' output stream: Stderr or an index into handles
  handles,      \* every *os.File the logger opened: [path, ino, open]
  fs,           \* the directory: path -> inode (0: no such file)
  nIno,         \* inodes created so far
  nChan,        \* channels made so far
  closedCh,     \* the channels that are closed
  panicked,     \* the runtime panicked (close of a closed channel)
  pc,           \* thread -> position
  oldFd,        \* thread -> Reopen's local oldFd; Test's local loggerOut
  rerr,         \* thread -> the error its last Reopen returned: "none", "nil", "err"
  wfile,        \* watcher -> fsWatch's filename parameter
  wquit,        \* watcher -> fsWatch's quit parameter
  watches,      \* watcher -> the inodes its fsnotify watcher watches
  pending,      \* watcher -> events waiting in watcher.Event
  nWatch,       \* watcher goroutines started so far
  signalChan,   \* init's signalChan: SIGHUPs waiting
  lastW,        \* where the last log write landed (WriteKind), or "none"
  cnt,          \* what the environment did so far: [opens, rots, sigs, usr2, tests]
  hist,         \* history: [ioFailed, earlyRot, overlap, badWrite], and
                \* written: the files (inodes) that hold log lines
  cfg,          \* the flags and the parsed configuration (inputs of main)
  exited,       \* "no", or how the process ended: "fatal", "stopped", ...
  listening,    \* the pprof listener is open
  app,          \* the managed application: [started, grace, exit, reloads, rlast]
  reloadChan,   \* the reload listener's channel: SIGHUPs waiting
  usr2Chan,     \* the stop listener's channel: SIGUSR2s waiting
  steps         \* main's startup steps that succeeded, in order

lvars == <<filename, fd, watcherDone, mu, out, handles, fs, nIno, nChan,
           closedCh, panicked, pc, oldFd, rerr, wfile, wquit, watches,
           pending, nWatch, signalChan, lastW, cnt, hist>>

mvars == <<cfg, exited, listening, app, reloadChan, usr2Chan, steps>>

vars == <<lvars, mvars>>

\* Neither a panic nor os.Exit nor main's return has ended the process.
Alive == ~panicked /\ exited = "no"

Listeners == {Hup, Usr2, Reload}
Threads == Callers \cup {Main} \cup Listeners \cup Watchers

\* ------------------------------------------------------------ helpers

\* The environment may still act: call Open, rename the file, send a signal.
Budget == cnt.opens + cnt.rots + cnt.sigs + cnt.usr2 + cnt.tests < MaxOps

\* Reopen's caller continues here when Reopen returns.
After(t) ==
  IF t \in Watchers THEN "W_sub"
  ELSE IF t = Hup THEN "H_info"
  ELSE "O_chk"

\* Positions between Open's entry and its return.
InOpen(t) ==
  pc[t] \in {"R_open", "R_setout", "R_close", "O_chk", "O_close", "O_make", "O_watch"}

\* os.OpenFile(name, O_RDWR|O_CREATE|O_APPEND): the inode the new handle is on,
\* a new one when no file is at the path.
OpenFileIno(name) == IF fs[name] # 0 THEN fs[name] ELSE nIno + 1

\* Mutant: Reopen leaves logrus' output where it was.
LoggerOutStale(f) == out

\* if l.fd != nil { loggerOut = l.fd } else { loggerOut = os.Stderr }
LoggerOut(f) == IF f # NoFd THEN f ELSE Stderr

\* Mutant: Reopen closes l.fd, the handle it has just installed.
FdToCloseNew(old, new) == new

\* The handle Reopen closes after the swap: oldFd.
FdToClose(old, new) == old

\* Mutant: l.fd = newFd is done before err is tested, so a failed open
\* leaves the logger without a handle.
FailedFdNil(old) == NoFd

\* The handle the logger holds after os.OpenFile failed: Reopen returns
\* before it touches l.fd.
FailedFd(old) == old

\* Mutant: httpStop() is not called before app.GraceStop().
HttpStopNoop(l) == l

\* httpStop() closes the pprof listener: it is open no more.
HttpStop(l) == FALSE

\* Whether a write to stream o reaches an open descriptor.
StreamOpen(o, hs) ==
  IF o \in {Stderr, Buffer} THEN TRUE
  ELSE IF o = NilFile THEN FALSE
  ELSE hs[o].open

\* Where a write to stream o lands: standard error, Test's buffer, the
\* logger's current handle, a replaced handle that is still open, or a
\* closed (or nil) descriptor.
WriteKind(o) ==
  IF o = Stderr THEN "stderr"
  ELSE IF o = Buffer THEN "buffer"
  ELSE IF ~StreamOpen(o, handles) THEN "closed"
  ELSE IF o = fd THEN "cur"
  ELSE "old"

\* One logrus write: it goes to the stream that is current now.
\* io: the write reports a failed watcher call.
Write(io) ==
  /\ lastW' = WriteKind(out)
  /\ hist' = [hist EXCEPT !.badWrite = @ \/ ~StreamOpen(out, handles),
                          !.ioFailed = @ \/ io,
                          !.written = IF out > 0 /\ handles[out].open
                                        THEN @ \cup {handles[out].ino}
                                        ELSE @]

\* ------------------------------------------------------------- Reopen

\* Mutant: os.OpenFile returns a handle together with the error, and Reopen
\* returns without closing it.
ReopenFailLeak(t) ==
  /\ Alive
  /\ UNCHANGED mvars
  /\ pc[t] = "R_open"
  /\ mu = Free
  /\ filename # ""
  /\ pc' = [pc EXCEPT ![t] = After(t)]
  /\ rerr' = [rerr EXCEPT ![t] = "err"]
  /\ hist' = [hist EXCEPT !.ioFailed = TRUE]
  /\ handles' = Append(handles, [path |-> filename, ino |-> fs[filename],
                                  open |-> TRUE])
  /\ UNCHANGED <<filename, fd, watcherDone, mu, out, fs, nIno, nChan,
                 closedCh, panicked, oldFd, wfile, wquit, watches, pending,
                 nWatch, signalChan, lastW, cnt>>

\* l.Lock(); os.OpenFile fails: return err (the deferred Unlock runs).
ReopenFail(t) ==
  /\ Alive
  /\ UNCHANGED mvars
  /\ pc[t] = "R_open"
  /\ mu = Free
  /\ filename # ""
  /\ pc' = [pc EXCEPT ![t] = After(t)]
  /\ rerr' = [rerr EXCEPT ![t] = "err"]
  /\ hist' = [hist EXCEPT !.ioFailed = TRUE]
  /\ fd' = FailedFd(fd)
  /\ UNCHANGED <<filename, watcherDone, mu, out, handles, fs, nIno, nChan,
                 closedCh, panicked, oldFd, wfile, wquit, watches, pending,
                 nWatch, signalChan, lastW, cnt>>

\* Mutant: the file is opened with O_TRUNC, which drops its lines.
OpenFileTrunc(written, name) == written \ {fs[name]}

\* The files that hold lines after os.OpenFile(name, O_RDWR|O_CREATE|O_APPEND):
\* without O_TRUNC the file at the path keeps its lines.
OpenFileData(written, name) == written

\* l.Lock(); newFd from os.OpenFile (nil for the empty filename);
\* oldFd := l.fd; l.fd = newFd.
ReopenOpen(t) ==
  /\ Alive
  /\ UNCHANGED mvars
  /\ pc[t] = "R_open"
  /\ mu = Free
  /\ mu' = t
  /\ oldFd' = [oldFd EXCEPT ![t] = fd]
  /\ IF filename # ""
       THEN /\ handles' = Append(handles, [path |-> filename,
                                           ino |-> OpenFileIno(filename),
                                           open |-> TRUE])
            /\ fd' = Len(handles) + 1
            /\ fs' = [fs EXCEPT ![filename] = OpenFileIno(filename)]
            /\ nIno' = IF fs[filename] # 0 THEN nIno ELSE nIno + 1
            /\ hist' = [hist EXCEPT !.written = OpenFileData(@, filename)]
       ELSE /\ fd' = NoFd
            /\ UNCHANGED <<handles, fs, nIno, hist>>
  /\ pc' = [pc EXCEPT ![t] = "R_setout"]
  /\ UNCHANGED <<filename, watcherDone, out, nChan, closedCh, panicked, rerr,
                 wfile, wquit, watches, pending, nWatch, signalChan, lastW,
                 cnt>>

\* logrus.SetOutput(loggerOut)
ReopenSetOutput(t) ==
  /\ Alive
  /\ UNCHANGED mvars
  /\ pc[t] = "R_setout"
  /\ out' = LoggerOut(fd)
  /\ pc' = [pc EXCEPT ![t] = "R_close"]
  /\ UNCHANGED <<filename, fd, watcherDone, mu, handles, fs, nIno, nChan,
                 closedCh, panicked, oldFd, rerr, wfile, wquit, watches,
                 pending, nWatch, signalChan, lastW, cnt, hist>>

\* if oldFd != nil { oldFd.Close() }; return nil (the deferred Unlock runs).
ReopenClose(t) ==
  /\ Alive
  /\ UNCHANGED mvars
  /\ pc[t] = "R_close"
  /\ LET c == FdToClose(oldFd[t], fd)
     IN handles' = IF c # NoFd THEN [handles EXCEPT ![c].open = FALSE]
                   ELSE handles
  /\ mu' = Free
  /\ rerr' = [rerr EXCEPT ![t] = "nil"]
  /\ pc' = [pc EXCEPT ![t] = After(t)]
  /\ UNCHANGED <<filename, fd, watcherDone, out, fs, nIno, nChan, closedCh,
                 panicked, oldFd, wfile, wquit, watches, pending, nWatch,
                 signalChan, lastW, cnt, hist>>

\* --------------------------------------------------------------- Open

\* Open(name): l.Lock(); l.filename = filename; l.Unlock(); then l.Reopen().
OpenEnter(t, name) ==
  /\ mu = Free
  /\ filename' = name
  /\ pc' = [pc EXCEPT ![t] = "R_open"]
  /\ rerr' = [rerr EXCEPT ![t] = "none"]

\* A caller of the package calls Open(name).
OpenCall(t, name) ==
  /\ Alive
  /\ UNCHANGED mvars
  /\ pc[t] = "idle"
  /\ Budget
  /\ OpenEnter(t, name)
  /\ cnt' = [cnt EXCEPT !.opens = @ + 1]
  /\ hist' = [hist EXCEPT !.overlap = @ \/ \E u \in Callers \ {t} : InOpen(u)]
  /\ UNCHANGED <<fd, watcherDone, mu, out, handles, fs, nIno, nChan, closedCh,
                 panicked, oldFd, wfile, wquit, watches, pending, nWatch,
                 signalChan, lastW>>

\* if l.watcherDone != nil
OpenCheckDone(t) ==
  /\ Alive
  /\ UNCHANGED mvars
  /\ pc[t] = "O_chk"
  /\ pc' = [pc EXCEPT ![t] = IF watcherDone # NoChan THEN "O_close" ELSE "O_make"]
  /\ UNCHANGED <<filename, fd, watcherDone, mu, out, handles, fs, nIno, nChan,
                 closedCh, panicked, oldFd, rerr, wfile, wquit, watches,
                 pending, nWatch, signalChan, lastW, cnt, hist>>

\* close(l.watcherDone): closing a closed channel panics.
OpenCloseDone(t) ==
  /\ Alive
  /\ UNCHANGED mvars
  /\ pc[t] = "O_close"
  /\ IF watcherDone \in closedCh
       THEN /\ panicked' = TRUE
            /\ UNCHANGED <<closedCh, pc>>
       ELSE /\ closedCh' = closedCh \cup {watcherDone}
            /\ pc' = [pc EXCEPT ![t] = "O_make"]
            /\ UNCHANGED panicked
  /\ UNCHANGED <<filename, fd, watcherDone, mu, out, handles, fs, nIno, nChan,
                 oldFd, rerr, wfile, wquit, watches, pending, nWatch,
                 signalChan, lastW, cnt, hist>>

\* l.watcherDone = make(chan bool)
OpenMakeDone(t) ==
  /\ Alive
  /\ UNCHANGED mvars
  /\ pc[t] = "O_make"
  /\ watcherDone' = nChan + 1
  /\ nChan' = nChan + 1
  /\ pc' = [pc EXCEPT ![t] = "O_watch"]
  /\ UNCHANGED <<filename, fd, mu, out, handles, fs, nIno, closedCh, panicked,
                 oldFd, rerr, wfile, wquit, watches, pending, nWatch,
                 signalChan, lastW, cnt, hist>>

\* Open's caller continues here when Open returns.
OpenRet(t) == IF t = Main THEN "M_setfile_ret" ELSE "idle"

\* subscribe(): watcher.WatchFlags(filename, CREATE|DELETE|RENAME) adds a watch
\* on the file now at the path.
Subscribed(ws, name) == ws \cup {fs[name]}

\* Mutant: Open returns the error of fsnotify.NewWatcher().
FsWatchNoWatcherErr(t) ==
  /\ Alive
  /\ UNCHANGED mvars
  /\ pc[t] = "O_watch"
  /\ Write(TRUE)
  /\ rerr' = [rerr EXCEPT ![t] = "err"]
  /\ pc' = [pc EXCEPT ![t] = OpenRet(t)]
  /\ UNCHANGED <<filename, fd, watcherDone, mu, out, handles, fs, nIno, nChan,
                 closedCh, panicked, oldFd, wfile, wquit, watches,
                 pending, nWatch, signalChan, cnt>>

\* fsWatch: fsnotify.NewWatcher() fails: warn and return.
FsWatchNoWatcher(t) ==
  /\ Alive
  /\ UNCHANGED mvars
  /\ pc[t] = "O_watch"
  /\ Write(TRUE)
  /\ pc' = [pc EXCEPT ![t] = OpenRet(t)]
  /\ UNCHANGED <<filename, fd, watcherDone, mu, out, handles, fs, nIno, nChan,
                 closedCh, panicked, oldFd, rerr, wfile, wquit, watches,
                 pending, nWatch, signalChan, cnt>>

\* fsWatch(l.filename, l.watcherDone) with an empty filename: return.
FsWatchEmpty(t) ==
  /\ Alive
  /\ UNCHANGED mvars
  /\ pc[t] = "O_watch"
  /\ filename = ""
  /\ pc' = [pc EXCEPT ![t] = OpenRet(t)]
  /\ UNCHANGED <<filename, fd, watcherDone, mu, out, handles, fs, nIno, nChan,
                 closedCh, panicked, oldFd, rerr, wfile, wquit, watches,
                 pending, nWatch, signalChan, lastW, cnt, hist>>

\* fsWatch(l.filename, l.watcherDone): subscribe() (a failure is a warning),
\* then the goroutine starts; ok says whether WatchFlags succeeded.
FsWatchStart(t, ok) ==
  /\ Alive
  /\ UNCHANGED mvars
  /\ pc[t] = "O_watch"
  /\ filename # ""
  /\ ok => fs[filename] # 0
  /\ LET w == W(nWatch + 1) IN
       /\ nWatch' = nWatch + 1
       /\ wfile' = [wfile EXCEPT ![w] = filename]
       /\ wquit' = [wquit EXCEPT ![w] = watcherDone]
       /\ watches' = [watches EXCEPT ![w] = IF ok THEN Subscribed({}, filename) ELSE {}]
       /\ pc' = [pc EXCEPT ![t] = OpenRet(t), ![w] = "W_sel"]
  /\ IF ok THEN UNCHANGED <<lastW, hist>>
     ELSE Write(TRUE)
  /\ UNCHANGED <<filename, fd, watcherDone, mu, out, handles, fs, nIno, nChan,
                 closedCh, panicked, oldFd, rerr, pending, signalChan, cnt>>

\* ------------------------------------------------- the watcher goroutine

\* Mutant: the watcher re-subscribes as it takes the event, before l.Reopen().
WatcherEventSubscribes(w) ==
  /\ Alive
  /\ UNCHANGED mvars
  /\ pc[w] = "W_sel"
  /\ pending[w] > 0
  /\ pending' = [pending EXCEPT ![w] = @ - 1]
  /\ watches' = [watches EXCEPT ![w] = IF fs[wfile[w]] # 0
                                         THEN Subscribed(@, wfile[w]) ELSE @]
  /\ pc' = [pc EXCEPT ![w] = "R_open"]
  /\ UNCHANGED <<filename, fd, watcherDone, mu, out, handles, fs, nIno, nChan,
                 closedCh, panicked, oldFd, rerr, wfile, wquit,
                 nWatch, signalChan, lastW, cnt, hist>>

\* case <-watcher.Event: then l.Reopen()
WatcherEvent(w) ==
  /\ Alive
  /\ UNCHANGED mvars
  /\ pc[w] = "W_sel"
  /\ pending[w] > 0
  /\ pending' = [pending EXCEPT ![w] = @ - 1]
  /\ pc' = [pc EXCEPT ![w] = "R_open"]
  /\ UNCHANGED <<filename, fd, watcherDone, mu, out, handles, fs, nIno, nChan,
                 closedCh, panicked, oldFd, rerr, wfile, wquit, watches,
                 nWatch, signalChan, lastW, cnt, hist>>

\* case <-quit: return (the deferred watcher.Close() drops the watches).
WatcherQuit(w) ==
  /\ Alive
  /\ UNCHANGED mvars
  /\ pc[w] = "W_sel"
  /\ wquit[w] \in closedCh
  /\ pc' = [pc EXCEPT ![w] = "W_exit"]
  /\ watches' = [watches EXCEPT ![w] = {}]
  /\ pending' = [pending EXCEPT ![w] = 0]
  /\ UNCHANGED <<filename, fd, watcherDone, mu, out, handles, fs, nIno, nChan,
                 closedCh, panicked, oldFd, rerr, wfile, wquit, nWatch,
                 signalChan, lastW, cnt, hist>>

\* subscribe() after l.Reopen(); ok says whether WatchFlags succeeded.
WatcherSubscribe(w, ok) ==
  /\ Alive
  /\ UNCHANGED mvars
  /\ pc[w] = "W_sub"
  /\ ok => fs[wfile[w]] # 0
  /\ watches' = [watches EXCEPT ![w] = IF ok THEN Subscribed(@, wfile[w]) ELSE @]
  /\ pc' = [pc EXCEPT ![w] = "W_info"]
  /\ IF ok THEN UNCHANGED <<lastW, hist>>
     ELSE Write(TRUE)
  /\ UNCHANGED <<filename, fd, watcherDone, mu, out, handles, fs, nIno, nChan,
                 closedCh, panicked, oldFd, rerr, wfile, wquit, pending,
                 nWatch, signalChan, cnt>>

\* The err the goroutine tests after its Infof: fsWatch's own, assigned by
\* fsnotify.NewWatcher() and nil whenever the goroutine was started; the
\* result of l.Reopen() is discarded and subscribe() declares its own err.
WatcherErr(w) == "nil"

\* logrus.Infof("Reopen log %#v by fsnotify event", std.Filename());
\* if err != nil { logrus.Errorf(...) }: "W_err" is the Errorf.
WatcherInfo(w) ==
  /\ Alive
  /\ UNCHANGED mvars
  /\ pc[w] = "W_info"
  /\ mu = Free
  /\ Write(FALSE)
  /\ pc' = [pc EXCEPT ![w] = IF WatcherErr(w) # "nil" THEN "W_err" ELSE "W_sel"]
  /\ UNCHANGED <<filename, fd, watcherDone, mu, out, handles, fs, nIno, nChan,
                 closedCh, panicked, oldFd, rerr, wfile, wquit, watches,
                 pending, nWatch, signalChan, cnt>>

\* ------------------------------------- init's SIGHUP listener ("hup")

\* case <-signalChan: then std.Reopen()
HupRecv ==
  /\ Alive
  /\ UNCHANGED mvars
  /\ pc[Hup] = "H_recv"
  /\ signalChan > 0
  /\ signalChan' = signalChan - 1
  /\ pc' = [pc EXCEPT ![Hup] = "R_open"]
  /\ UNCHANGED <<filename, fd, watcherDone, mu, out, handles, fs, nIno, nChan,
                 closedCh, panicked, oldFd, rerr, wfile, wquit, watches,
                 pending, nWatch, lastW, cnt, hist>>

\* log.Infof("HUP received, reopen log %#v", std.Filename()); if err != nil
HupInfo ==
  /\ Alive
  /\ UNCHANGED mvars
  /\ pc[Hup] = "H_info"
  /\ mu = Free
  /\ Write(FALSE)
  /\ pc' = [pc EXCEPT ![Hup] = IF rerr[Hup] = "err" THEN "H_err" ELSE "H_recv"]
  /\ UNCHANGED <<filename, fd, watcherDone, mu, out, handles, fs, nIno, nChan,
                 closedCh, panicked, oldFd, rerr, wfile, wquit, watches,
                 pending, nWatch, signalChan, cnt>>

\* Mutant: the failed reopen is reported with log.Fatalf, which exits.
HupErrorFatal ==
  /\ Alive
  /\ pc[Hup] = "H_err"
  /\ mu = Free
  /\ Write(FALSE)
  /\ exited' = "fatal"
  /\ UNCHANGED <<filename, fd, watcherDone, mu, out, handles, fs, nIno, nChan,
                 closedCh, panicked, pc, oldFd, rerr, wfile, wquit, watches,
                 pending, nWatch, signalChan, cnt>>
  /\ UNCHANGED <<cfg, listening, app, reloadChan, usr2Chan, steps>>

\* log.Errorf("Reopen log %#v failed: %s", std.Filename(), err.Error())
HupError ==
  /\ Alive
  /\ UNCHANGED mvars
  /\ pc[Hup] = "H_err"
  /\ mu = Free
  /\ Write(FALSE)
  /\ pc' = [pc EXCEPT ![Hup] = "H_recv"]
  /\ UNCHANGED <<filename, fd, watcherDone, mu, out, handles, fs, nIno, nChan,
                 closedCh, panicked, oldFd, rerr, wfile, wquit, watches,
                 pending, nWatch, signalChan, cnt>>

\* -------------------------------------------------------- environment

\* A channel of capacity cap after signal.Notify's non-blocking send.
Notified(n, cap) == IF n < cap THEN n + 1 ELSE n

\* Whether the reload listener has called signal.Notify(c, syscall.SIGHUP).
ReloadRegistered == pc[Reload] \notin {"L_off", "L_notify"}

\* Whether the stop listener has called signal.Notify(c, syscall.SIGUSR2).
Usr2Registered == pc[Usr2] \notin {"U_off", "U_notify"}

\* The process receives SIGHUP.
SigHup ==
  /\ Alive
  /\ Budget
  /\ cnt' = [cnt EXCEPT !.sigs = @ + 1]
  /\ signalChan' = Notified(signalChan, ReopenChanCap)
  /\ reloadChan' = IF ReloadRegistered THEN Notified(reloadChan, ReloadChanCap)
                   ELSE reloadChan
  /\ UNCHANGED <<filename, fd, watcherDone, mu, out, handles, fs, nIno, nChan,
                 closedCh, panicked, pc, oldFd, rerr, wfile, wquit, watches,
                 pending, nWatch, lastW, hist>>
  /\ UNCHANGED <<cfg, exited, listening, app, usr2Chan, steps>>

\* The rotation tool renames the file at path p away: every watch on its
\* inode reports a rename event.
ExtRename(p) ==
  /\ Alive
  /\ UNCHANGED mvars
  /\ Budget
  /\ fs[p] # 0
  /\ cnt' = [cnt EXCEPT !.rots = @ + 1]
  /\ fs' = [fs EXCEPT ![p] = 0]
  /\ pending' = [w \in Watchers |->
                   IF fs[p] \in watches[w] THEN pending[w] + 1 ELSE pending[w]]
  /\ hist' = [hist EXCEPT !.earlyRot =
                 @ \/ \E t \in Callers \cup {Main} : InOpen(t)]
  /\ UNCHANGED <<filename, fd, watcherDone, mu, out, handles, nIno, nChan,
                 closedCh, panicked, pc, oldFd, rerr, wfile, wquit, watches,
                 nWatch, signalChan, lastW>>

\* The rotation tool creates a new file at path p, where none is.
ExtCreate(p) ==
  /\ Alive
  /\ UNCHANGED mvars
  /\ cnt.rots > 0
  /\ fs[p] = 0
  /\ fs' = [fs EXCEPT ![p] = nIno + 1]
  /\ nIno' = nIno + 1
  /\ UNCHANGED <<filename, fd, watcherDone, mu, out, handles, nChan, closedCh,
                 panicked, pc, oldFd, rerr, wfile, wquit, watches, pending,
                 nWatch, signalChan, lastW, cnt, hist>>

\* Any goroutine of the application logs a line.
LogWrite ==
  /\ Alive
  /\ UNCHANGED mvars
  /\ Write(FALSE)
  /\ UNCHANGED <<filename, fd, watcherDone, mu, out, handles, fs, nIno, nChan,
                 closedCh, panicked, pc, oldFd, rerr, wfile, wquit, watches,
                 pending, nWatch, signalChan, cnt>>

\* The process receives SIGUSR2: dropped unless the stop listener listens.
SigUsr2 ==
  /\ Alive
  /\ Budget
  /\ cnt' = [cnt EXCEPT !.usr2 = @ + 1]
  /\ usr2Chan' = IF Usr2Registered THEN Notified(usr2Chan, Usr2ChanCap)
                 ELSE usr2Chan
  /\ UNCHANGED <<filename, fd, watcherDone, mu, out, handles, fs, nIno, nChan,
                 closedCh, panicked, pc, oldFd, rerr, wfile, wquit, watches,
                 pending, nWatch, signalChan, lastW, hist>>
  /\ UNCHANGED <<cfg, exited, listening, app, reloadChan, steps>>

\* ------------------------------------------------------- Test helper

\* Test(callable): buf := &buffer{}; logrus.SetOutput(buf); callable(buf)
\* runs from here on.
TestBegin(t) ==
  /\ Alive
  /\ UNCHANGED mvars
  /\ pc[t] = "idle"
  /\ Budget
  /\ cnt' = [cnt EXCEPT !.tests = @ + 1]
  /\ out' = Buffer
  /\ pc' = [pc EXCEPT ![t] = "T_call"]
  /\ UNCHANGED <<filename, fd, watcherDone, mu, handles, fs, nIno, nChan,
                 closedCh, panicked, oldFd, rerr, wfile, wquit, watches,
                 pending, nWatch, signalChan, lastW, hist>>

\* callable has returned; if std.fd != nil (no lock is taken)
TestCheckFd(t) ==
  /\ Alive
  /\ UNCHANGED mvars
  /\ pc[t] = "T_call"
  /\ IF fd # NoFd
       THEN pc' = [pc EXCEPT ![t] = "T_read"] /\ UNCHANGED oldFd
       ELSE /\ pc' = [pc EXCEPT ![t] = "T_set"]
            /\ oldFd' = [oldFd EXCEPT ![t] = Stderr]
  /\ UNCHANGED <<filename, fd, watcherDone, mu, out, handles, fs, nIno, nChan,
                 closedCh, panicked, rerr, wfile, wquit, watches,
                 pending, nWatch, signalChan, lastW, cnt, hist>>

\* loggerOut = std.fd: the second read of the field, again with no lock; a
\* Reopen for the empty filename may have made it nil since the test.
TestReadFd(t) ==
  /\ Alive
  /\ UNCHANGED mvars
  /\ pc[t] = "T_read"
  /\ oldFd' = [oldFd EXCEPT ![t] = IF fd # NoFd THEN fd ELSE NilFile]
  /\ pc' = [pc EXCEPT ![t] = "T_set"]
  /\ UNCHANGED <<filename, fd, watcherDone, mu, out, handles, fs, nIno, nChan,
                 closedCh, panicked, rerr, wfile, wquit, watches,
                 pending, nWatch, signalChan, lastW, cnt, hist>>

\* logrus.SetOutput(loggerOut); Test returns.
TestSetOutput(t) ==
  /\ Alive
  /\ UNCHANGED mvars
  /\ pc[t] = "T_set"
  /\ out' = oldFd[t]
  /\ pc' = [pc EXCEPT ![t] = "idle"]
  /\ UNCHANGED <<filename, fd, watcherDone, mu, handles, fs, nIno, nChan,
                 closedCh, panicked, oldFd, rerr, wfile, wquit, watches,
                 pending, nWatch, signalChan, lastW, cnt, hist>>

\* ---------------------------------------------------------------- main

\* What main leaves alone in the logger when it neither logs nor opens.
MainKeeps ==
  UNCHANGED <<filename, fd, watcherDone, mu, out, handles, nIno, nChan,
              closedCh, panicked, oldFd, rerr, wfile, wquit, watches, pending,
              nWatch, signalChan, cnt>>

\* log.Fatal(err): the line is written, then os.Exit(1).
Fatal ==
  /\ Write(FALSE)
  /\ exited' = "fatal"
  /\ UNCHANGED pc

\* A step of main that succeeded: remember it and go on at position next.
Done(step, next) ==
  /\ steps' = Append(steps, step)
  /\ pc' = [pc EXCEPT ![Main] = next]
  /\ UNCHANGED <<exited, lastW, hist>>

\* flag.Parse(); -version prints the version and returns.
MainVersion ==
  /\ Alive
  /\ pc[Main] = "M_flags"
  /\ exited' = "version"
  /\ MainKeeps
  /\ UNCHANGED <<fs, pc, lastW, hist, cfg, listening, app, reloadChan, usr2Chan, steps>>

\* -config-print-default prints the default configuration and returns;
\* a failure to print is fatal.
MainPrintDefault(ok) ==
  /\ Alive
  /\ pc[Main] = "M_flags"
  /\ IF ok THEN exited' = "printdefault" /\ UNCHANGED <<pc, lastW, hist>>
     ELSE Fatal
  /\ MainKeeps
  /\ UNCHANGED <<fs, cfg, listening, app, reloadChan, usr2Chan, steps>>

\* app := carbon.New(*configFile); app.ParseConfig(); cfg := app.Config.
\* The configuration names the log file and may name a run-as user.
MainParseConfig(ok, logfile, user) ==
  /\ Alive
  /\ pc[Main] = "M_flags"
  /\ IF ok THEN /\ cfg' = [logfile |-> logfile, user |-> user]
                /\ Done("parse", "M_user")
     ELSE Fatal /\ UNCHANGED <<cfg, steps>>
  /\ MainKeeps
  /\ UNCHANGED <<fs, listening, app, reloadChan, usr2Chan>>

\* if cfg.Common.User != "" { runAsUser, err = user.Lookup(...) }
MainUserLookup(ok) ==
  /\ Alive
  /\ pc[Main] = "M_user"
  /\ ~cfg.user => ok
  /\ IF ok THEN Done("user", "M_level")
     ELSE Fatal /\ UNCHANGED steps
  /\ MainKeeps
  /\ UNCHANGED <<fs, cfg, listening, app, reloadChan, usr2Chan>>

\* log.SetLevel(cfg.Common.LogLevel)
MainSetLevel(ok) ==
  /\ Alive
  /\ pc[Main] = "M_level"
  /\ IF ok THEN Done("level", "M_check")
     ELSE Fatal /\ UNCHANGED steps
  /\ MainKeeps
  /\ UNCHANGED <<fs, cfg, listening, app, reloadChan, usr2Chan>>

\* Mutant: the -check-config flag is tested after log.PrepareFile, which
\* has created the log file by then.
MainCheckConfigLate(check) ==
  /\ Alive
  /\ pc[Main] = "M_check"
  /\ IF check THEN exited' = "check" /\ UNCHANGED pc
     ELSE pc' = [pc EXCEPT ![Main] = "M_prepare"] /\ UNCHANGED exited
  /\ IF check /\ cfg.logfile # "" /\ fs[cfg.logfile] = 0
       THEN fs' = [fs EXCEPT ![cfg.logfile] = nIno + 1] /\ nIno' = nIno + 1
       ELSE UNCHANGED <<fs, nIno>>
  /\ UNCHANGED <<filename, fd, watcherDone, mu, out, handles, nChan,
                 closedCh, panicked, oldFd, rerr, wfile, wquit, watches, pending,
                 nWatch, signalChan, cnt>>
  /\ UNCHANGED <<lastW, hist, cfg, listening, app, reloadChan, usr2Chan, steps>>

\* if *checkConfig { return }
MainCheckConfig(check) ==
  /\ Alive
  /\ pc[Main] = "M_check"
  /\ IF check THEN exited' = "check" /\ UNCHANGED pc
     ELSE pc' = [pc EXCEPT ![Main] = "M_prepare"] /\ UNCHANGED exited
  /\ MainKeeps
  /\ UNCHANGED <<fs, lastW, hist, cfg, listening, app, reloadChan, usr2Chan, steps>>

\* log.PrepareFile(cfg.Common.Logfile, runAsUser): nothing for the empty
\* name; otherwise the file is created (made says whether OpenFile got
\* that far) and chmod and chown follow.
MainPrepareFile(ok, made) ==
  /\ Alive
  /\ pc[Main] = "M_prepare"
  /\ cfg.logfile = "" => ok /\ ~made
  /\ ok /\ cfg.logfile # "" => made
  /\ IF made /\ fs[cfg.logfile] = 0
       THEN fs' = [fs EXCEPT ![cfg.logfile] = nIno + 1] /\ nIno' = nIno + 1
       ELSE UNCHANGED <<fs, nIno>>
  /\ IF ok THEN Done("prepare", "M_setfile")
     ELSE Fatal /\ UNCHANGED steps
  /\ UNCHANGED <<filename, fd, watcherDone, mu, out, handles, nChan,
                 closedCh, panicked, oldFd, rerr, wfile, wquit, watches, pending,
                 nWatch, signalChan, cnt>>
  /\ UNCHANGED <<cfg, listening, app, reloadChan, usr2Chan>>

\* log.SetFile(cfg.Common.Logfile): std.Open(filename)
MainSetFile ==
  /\ Alive
  /\ pc[Main] = "M_setfile"
  /\ OpenEnter(Main, cfg.logfile)
  /\ UNCHANGED <<fd, watcherDone, mu, out, handles, fs, nIno, nChan, closedCh,
                 panicked, oldFd, wfile, wquit, watches, pending, nWatch,
                 signalChan, lastW, cnt, hist>>
  /\ UNCHANGED mvars

\* Mutant: the error of log.SetFile is not tested.
MainSetFileRetIgnore ==
  /\ Alive
  /\ pc[Main] = "M_setfile_ret"
  /\ Done("open", "M_daemon")
  /\ MainKeeps
  /\ UNCHANGED <<fs, cfg, listening, app, reloadChan, usr2Chan>>

\* if err := log.SetFile(...); err != nil { log.Fatal(err) }
MainSetFileRet ==
  /\ Alive
  /\ pc[Main] = "M_setfile_ret"
  /\ IF rerr[Main] = "err" THEN Fatal /\ UNCHANGED steps
     ELSE Done("open", "M_daemon")
  /\ MainKeeps
  /\ UNCHANGED <<fs, cfg, listening, app, reloadChan, usr2Chan>>

\* if *isDaemon { ... }: uid/gid of the run-as user must parse; Reborn()
\* returns the child to the parent, which returns; the child goes on.
MainDaemon(kind) ==
  /\ Alive
  /\ pc[Main] = "M_daemon"
  /\ kind = "fatal" => cfg.user
  /\ CASE kind = "fatal" -> Fatal
       [] kind = "parent" -> exited' = "parent" /\ UNCHANGED <<pc, lastW, hist>>
       [] OTHER -> /\ pc' = [pc EXCEPT ![Main] = "M_pprof"]
                   /\ UNCHANGED <<exited, lastW, hist>>
  /\ MainKeeps
  /\ UNCHANGED <<fs, cfg, listening, app, reloadChan, usr2Chan, steps>>

\* httpStop := func() {}; if cfg.Pprof.Enabled { httpStop, err = httpServe(...) }
MainPprof(enabled, ok) ==
  /\ Alive
  /\ pc[Main] = "M_pprof"
  /\ ~enabled => ok
  /\ IF ok THEN /\ listening' = enabled
                /\ steps' = IF enabled THEN Append(steps, "pprof") ELSE steps
                /\ pc' = [pc EXCEPT ![Main] = "M_start"]
                /\ UNCHANGED <<exited, lastW, hist>>
     ELSE Fatal /\ UNCHANGED <<listening, steps>>
  /\ MainKeeps
  /\ UNCHANGED <<fs, cfg, app, reloadChan, usr2Chan>>

\* if err = app.Start(); err != nil { log.Fatal(err) } else { log.Info("started") }
MainStart(ok) ==
  /\ Alive
  /\ pc[Main] = "M_start"
  /\ app' = [app EXCEPT !.started = TRUE]
  /\ Write(FALSE)
  /\ IF ok THEN /\ steps' = Append(steps, "start")
                /\ pc' = [pc EXCEPT ![Main] = "M_go"]
                /\ UNCHANGED exited
     ELSE exited' = "fatal" /\ UNCHANGED <<pc, steps>>
  /\ MainKeeps
  /\ UNCHANGED <<fs, cfg, listening, reloadChan, usr2Chan>>

\* The two go statements: the stop listener and the reload listener start.
MainGo ==
  /\ Alive
  /\ pc[Main] = "M_go"
  /\ pc' = [pc EXCEPT ![Main] = "M_loop", ![Usr2] = "U_notify", ![Reload] = "L_notify"]
  /\ MainKeeps
  /\ UNCHANGED <<fs, lastW, hist>>
  /\ UNCHANGED mvars

\* app.Loop() returns once the application has stopped.
LoopReturns == app.exit

\* app.Loop()
MainLoop ==
  /\ Alive
  /\ pc[Main] = "M_loop"
  /\ LoopReturns
  /\ Done("loop", "M_stopped")
  /\ MainKeeps
  /\ UNCHANGED <<fs, cfg, listening, app, reloadChan, usr2Chan>>

\* log.Info("stopped"); main returns and the process ends.
MainStopped ==
  /\ Alive
  /\ pc[Main] = "M_stopped"
  /\ Write(FALSE)
  /\ exited' = "stopped"
  /\ MainKeeps
  /\ UNCHANGED <<fs, pc, cfg, listening, app, reloadChan, usr2Chan, steps>>

\* ------------------------------------------ main's SIGUSR2 listener

\* What a listener leaves alone in the logger when it does not log.
ListenerKeeps ==
  UNCHANGED <<filename, fd, watcherDone, mu, out, handles, fs, nIno, nChan,
              closedCh, panicked, oldFd, rerr, wfile, wquit, watches, pending,
              nWatch, signalChan, cnt>>

\* c := make(chan os.Signal, 1); signal.Notify(c, syscall.SIGUSR2)
Usr2Notify ==
  /\ Alive
  /\ pc[Usr2] = "U_notify"
  /\ pc' = [pc EXCEPT ![Usr2] = "U_recv"]
  /\ ListenerKeeps
  /\ UNCHANGED <<lastW, hist>>
  /\ UNCHANGED mvars

\* <-c
Usr2Recv ==
  /\ Alive
  /\ pc[Usr2] = "U_recv"
  /\ usr2Chan > 0
  /\ usr2Chan' = usr2Chan - 1
  /\ pc' = [pc EXCEPT ![Usr2] = "U_http"]
  /\ ListenerKeeps
  /\ UNCHANGED <<lastW, hist>>
  /\ UNCHANGED <<cfg, exited, listening, app, reloadChan, steps>>

\* httpStop(): listener.Close(), or nothing when pprof is off.
Usr2HttpStop ==
  /\ Alive
  /\ pc[Usr2] = "U_http"
  /\ listening' = HttpStop(listening)
  /\ pc' = [pc EXCEPT ![Usr2] = "U_grace"]
  /\ ListenerKeeps
  /\ UNCHANGED <<lastW, hist>>
  /\ UNCHANGED <<cfg, exited, app, reloadChan, usr2Chan, steps>>

\* app.GraceStop() is called.
Usr2GraceStop ==
  /\ Alive
  /\ pc[Usr2] = "U_grace"
  /\ app' = [app EXCEPT !.grace = TRUE]
  /\ pc' = [pc EXCEPT ![Usr2] = "U_stopping"]
  /\ ListenerKeeps
  /\ UNCHANGED <<lastW, hist>>
  /\ UNCHANGED <<cfg, exited, listening, reloadChan, usr2Chan, steps>>

\* app.GraceStop() completes: the application has stopped.
Usr2GraceDone ==
  /\ Alive
  /\ pc[Usr2] = "U_stopping"
  /\ app' = [app EXCEPT !.exit = TRUE]
  /\ pc' = [pc EXCEPT ![Usr2] = "U_done"]
  /\ ListenerKeeps
  /\ UNCHANGED <<lastW, hist>>
  /\ UNCHANGED <<cfg, exited, listening, reloadChan, usr2Chan, steps>>

\* ------------------------------------------- main's SIGHUP listener

\* c := make(chan os.Signal, 1); signal.Notify(c, syscall.SIGHUP)
ReloadNotify ==
  /\ Alive
  /\ pc[Reload] = "L_notify"
  /\ pc' = [pc EXCEPT ![Reload] = "L_recv"]
  /\ ListenerKeeps
  /\ UNCHANGED <<lastW, hist>>
  /\ UNCHANGED mvars

\* <-c; log.Info("HUP received. Reload config")
ReloadRecv ==
  /\ Alive
  /\ pc[Reload] = "L_recv"
  /\ reloadChan > 0
  /\ reloadChan' = reloadChan - 1
  /\ Write(FALSE)
  /\ pc' = [pc EXCEPT ![Reload] = "L_reload"]
  /\ ListenerKeeps
  /\ UNCHANGED <<cfg, exited, listening, app, usr2Chan, steps>>

\* app.ReloadConfig(), then log.Errorf or log.Info with its outcome.
ReloadConfig(ok) ==
  /\ Alive
  /\ pc[Reload] = "L_reload"
  /\ app' = [app EXCEPT !.reloads = @ + 1, !.rlast = IF ok THEN "ok" ELSE "err"]
  /\ Write(FALSE)
  /\ pc' = [pc EXCEPT ![Reload] = "L_recv"]
  /\ ListenerKeeps
  /\ UNCHANGED <<cfg, exited, listening, reloadChan, usr2Chan, steps>>

\* ------------------------------------------------- the logger's program

\* NewFileLogger(): no filename, no handle, no watcher channel; logrus
\* writes to standard error.
InitLogger ==
  /\ filename = ""
  /\ fd = NoFd
  /\ watcherDone = NoChan
  /\ mu = Free
  /\ out = Stderr
  /\ handles = <<>>
  /\ fs = [p \in Paths |-> 0]
  /\ nIno = 0
  /\ nChan = 0
  /\ closedCh = {}
  /\ panicked = FALSE
  /\ oldFd = [t \in Threads |-> NoFd]
  /\ rerr = [t \in Threads |-> "none"]
  /\ wfile = [w \in Watchers |-> ""]
  /\ wquit = [w \in Watchers |-> NoChan]
  /\ watches = [w \in Watchers |-> {}]
  /\ pending = [w \in Watchers |-> 0]
  /\ nWatch = 0
  /\ signalChan = 0
  /\ lastW = "none"
  /\ cnt = [opens |-> 0, rots |-> 0, sigs |-> 0, usr2 |-> 0, tests |-> 0]
  /\ hist = [ioFailed |-> FALSE, earlyRot |-> FALSE, overlap |-> FALSE,
             badWrite |-> FALSE, written |-> {}]

\* The positions before main runs: init's listener waits for SIGHUP.
StartPc(t) ==
  IF t \in Watchers THEN "W_off"
  ELSE IF t = Hup THEN "H_recv"
  ELSE IF t = Usr2 THEN "U_off"
  ELSE IF t = Reload THEN "L_off"
  ELSE IF t = Main THEN "M_off"
  ELSE "idle"

\* The logger used as a package: callers call Open, the process is never
\* ended by main.
Init ==
  /\ InitLogger
  /\ pc = [t \in Threads |-> StartPc(t)]
  /\ cfg = [logfile |-> "", user |-> FALSE]
  /\ exited = "no"
  /\ listening = FALSE
  /\ app = [started |-> FALSE, grace |-> FALSE, exit |-> FALSE,
            reloads |-> 0, rlast |-> "none"]
  /\ reloadChan = 0
  /\ usr2Chan = 0
  /\ steps = <<>>

Reopen(t) ==
  \/ ReopenFail(t)
  \/ ReopenOpen(t)
  \/ ReopenSetOutput(t)
  \/ ReopenClose(t)

Open(t) ==
  \/ OpenCheckDone(t)
  \/ OpenCloseDone(t)
  \/ OpenMakeDone(t)
  \/ FsWatchNoWatcher(t)
  \/ FsWatchEmpty(t)
  \/ \E ok \in BOOLEAN : FsWatchStart(t, ok)

Watcher(w) ==
  \/ WatcherEvent(w)
  \/ WatcherQuit(w)
  \/ \E ok \in BOOLEAN : WatcherSubscribe(w, ok)
  \/ WatcherInfo(w)

Next ==
  \/ \E name \in Files : OpenCall(Caller1, name)
  \/ Open(Caller1)
  \/ \E t \in {Caller1, Hup} \cup Watchers : Reopen(t)
  \/ \E w \in Watchers : Watcher(w)
  \/ HupRecv
  \/ HupInfo
  \/ HupError
  \/ SigHup
  \/ \E p \in Paths : ExtRename(p)
  \/ \E p \in Paths : ExtCreate(p)
  \/ LogWrite

Spec == Init /\ [][Next]_vars

Test(t) ==
  \/ TestBegin(t)
  \/ TestCheckFd(t)
  \/ TestReadFd(t)
  \/ TestSetOutput(t)

\* The logger used as a package by a program whose tests call Test from a
\* second goroutine.
NextTest ==
  \/ Next
  \/ Test(Caller2)

SpecTest == Init /\ [][NextTest]_vars

\* Two goroutines call Open on the same logger, with nothing else at work;
\* a cancelled watcher returns.
NextOpen2 ==
  \/ \E t \in Callers, name \in Files : OpenCall(t, name)
  \/ \E t \in Callers : Open(t)
  \/ \E t \in Callers : Reopen(t)
  \/ \E w \in Watchers : WatcherQuit(w)

SpecOpen2 == Init /\ [][NextOpen2]_vars

\* The process: init has started its listener, main is about to run.
InitMain ==
  /\ InitLogger
  /\ pc = [t \in Threads |-> IF t = Main THEN "M_flags" ELSE StartPc(t)]
  /\ cfg = [logfile |-> "", user |-> FALSE]
  /\ exited = "no"
  /\ listening = FALSE
  /\ app = [started |-> FALSE, grace |-> FALSE, exit |-> FALSE,
            reloads |-> 0, rlast |-> "none"]
  /\ reloadChan = 0
  /\ usr2Chan = 0
  /\ steps = <<>>

MainStartup ==
  \/ MainVersion
  \/ \E ok \in BOOLEAN : MainPrintDefault(ok)
  \/ \E ok \in BOOLEAN, f \in Files, u \in BOOLEAN : MainParseConfig(ok, f, u)
  \/ \E ok \in BOOLEAN : MainUserLookup(ok)
  \/ \E ok \in BOOLEAN : MainSetLevel(ok)
  \/ \E c \in BOOLEAN : MainCheckConfig(c)
  \/ \E ok \in BOOLEAN, made \in BOOLEAN : MainPrepareFile(ok, made)
  \/ MainSetFile
  \/ MainSetFileRet
  \/ \E k \in {"fatal", "parent", "go on"} : MainDaemon(k)
  \/ \E en \in BOOLEAN, ok \in BOOLEAN : MainPprof(en, ok)
  \/ \E ok \in BOOLEAN : MainStart(ok)
  \/ MainGo
  \/ MainLoop
  \/ MainStopped

StopListener ==
  \/ Usr2Notify
  \/ Usr2Recv
  \/ Usr2HttpStop
  \/ Usr2GraceStop
  \/ Usr2GraceDone

ReloadListener ==
  \/ ReloadNotify
  \/ ReloadRecv
  \/ \E ok \in BOOLEAN : ReloadConfig(ok)

\* main calls Open once, on a logger that has no watcher yet: there is no
\* channel to close.
OpenFirst(t) ==
  \/ OpenCheckDone(t)
  \/ OpenMakeDone(t)
  \/ FsWatchNoWatcher(t)
  \/ FsWatchEmpty(t)
  \/ \E ok \in BOOLEAN : FsWatchStart(t, ok)

\* The process under signals, with no rotation tool at work: the watcher
\* goroutine waits for events and none comes.
NextMain ==
  \/ MainStartup
  \/ OpenFirst(Main)
  \/ \E t \in {Main, Hup} : Reopen(t)
  \/ HupRecv
  \/ HupInfo
  \/ HupError
  \/ StopListener
  \/ ReloadListener
  \/ SigHup
  \/ SigUsr2

SpecMain == InitMain /\ [][NextMain]_vars

\* Fair scheduling of the goroutines: each listener, and main while it is
\* inside Open (it may hold the lock), takes its next step when it can.
FairListeners ==
  /\ WF_vars(HupRecv \/ HupInfo \/ HupError \/ Reopen(Hup))
  /\ WF_vars(ReloadListener)
  /\ WF_vars(StopListener)
  /\ WF_vars(Reopen(Main) \/ OpenFirst(Main))

SpecMainFair == SpecMain /\ FairListeners

\* ============================================================== claims

\* Nothing of a Reopen is in progress and no event or signal waits.
Quiet ==
  /\ mu = Free
  /\ signalChan = 0
  /\ pc[Hup] = "H_recv"
  /\ \A w \in Watchers : pc[w] \in {"W_off", "W_sel", "W_exit"} /\ pending[w] = 0

\* C1: no log write is ever performed on a closed file handle: at every
\* moment the output stream is standard error or an open handle, whichever
\* of the callers, the SIGHUP listener and the watchers are inside Reopen,
\* and every write that happened landed on an open descriptor.
C1_NoWriteOnClosedHandle ==
  /\ StreamOpen(out, handles)
  /\ lastW # "closed"
  /\ ~hist.badWrite

\* C1 witness: a write landed on the handle being replaced while a Reopen
\* held the lock (after the swap, before SetOutput).
C1_Witness == lastW = "old" /\ mu # Free /\ pc[mu] = "R_setout"

\* C2: whenever the guard is free, the handle is none exactly when the
\* filename is empty, and otherwise is an open handle opened at the current
\* filename.
C2_PairAtomic ==
  mu = Free =>
    /\ (fd = NoFd) <=> (filename = "")
    /\ fd # NoFd => handles[fd].path = filename /\ handles[fd].open

\* C3: a Reopen whose open fails (the step from "R_open" straight to the
\* caller) leaves the handle, the output stream, the filename and every
\* descriptor as they were, closes nothing, and the stream stays writable.
C3_FailedReopenKeepsState ==
  [][\A t \in Threads :
       (pc[t] = "R_open" /\ pc'[t] = After(t)) =>
         /\ rerr'[t] = "err"
         /\ fd' = fd /\ out' = out /\ filename' = filename
         /\ handles' = handles
         /\ mu' = Free
         /\ StreamOpen(out', handles')
         /\ fd' # NoFd => handles'[fd'].open]_vars

\* C3 witness: the SIGHUP listener's Reopen failed while the logger held a
\* handle, and the line logged after it landed on that handle.
C3_Witness ==
  /\ pc[Hup] = "H_err"
  /\ rerr[Hup] = "err"
  /\ fd # NoFd
  /\ handles[fd].open
  /\ lastW = "cur"

\* C4: after a successful Open(path), with no I/O failure and every rename
\* after Open returned, once the files are in place and the watcher has
\* processed every event, the handle is on the file now at path, the
\* stream writes to it, and a live watcher watches that file.
C4_RotationFollowed ==
  ( /\ Quiet
    /\ pc[Caller1] = "idle"
    /\ cnt.opens >= 1
    /\ rerr[Caller1] = "nil"
    /\ filename \in Paths
    /\ cnt.rots > 0
    /\ fs[filename] # 0
    /\ ~hist.ioFailed
    /\ ~hist.earlyRot )
  => /\ fd # NoFd
     /\ handles[fd].ino = fs[filename]
     /\ out = fd
     /\ \E w \in Watchers : pc[w] = "W_sel" /\ fs[filename] \in watches[w]

\* C5: a write that begins while no Reopen is in progress goes to the
\* handle the last successful Reopen installed (standard error when it
\* installed none); while a Reopen is in progress it goes to the handle that
\* Reopen found or to the one it installs.
C5_WritesFollowReopen ==
  /\ mu = Free => out = (IF fd # NoFd THEN fd ELSE Stderr)
  /\ mu # Free =>
       \/ out = (IF fd # NoFd THEN fd ELSE Stderr)
       \/ pc[mu] = "R_setout"
          /\ out = (IF oldFd[mu] # NoFd THEN oldFd[mu] ELSE Stderr)

\* C5 witness: after a second handle was installed and Reopen returned, a
\* write landed on the current handle.
C5_Witness == mu = Free /\ fd >= 2 /\ lastW = "cur" /\ out = fd

\* C4 restricted to one rename: the single rotation of the scenario.
C4_SingleRotation == cnt.rots = 1 => C4_RotationFollowed

\* C6: once Open("") has returned (the caller is idle, the filename is
\* empty), the handle is none, the stream is standard error, every handle
\* the logger opened is closed, and no watcher goroutine or watch exists.
C6_OpenEmptyLeavesNothing ==
  (pc[Caller1] = "idle" /\ cnt.opens >= 1 /\ filename = "" /\ Quiet)
  => /\ fd = NoFd
     /\ out = Stderr
     /\ \A h \in 1..Len(handles) : ~handles[h].open
     /\ \A w \in Watchers : pc[w] \in {"W_off", "W_exit"} /\ watches[w] = {}

\* The watcher goroutines that have started and not returned.
LiveWatchers == {w \in Watchers : pc[w] \notin {"W_off", "W_exit"}}

\* C7: at every moment at most one watcher goroutine is live.
C7_OneLiveWatcher == Cardinality(LiveWatchers) <= 1

\* Main's startup steps up to the opening of the log file, in order.
StartupOrder == <<"parse", "user", "level", "prepare", "open">>

C9_HttpStopBeforeGraceStop ==
  /\ app.grace => ~listening /\ pc[Usr2] \in {"U_stopping", "U_done"}
  /\ pc[Usr2] \in {"U_grace", "U_stopping", "U_done"} => ~listening
  /\ exited = "stopped" =>
       /\ pc[Main] = "M_stopped"
       /\ steps[Len(steps)] = "loop"
       /\ steps[Len(steps) - 1] = "start"

\* C9 witness: pprof was listening, SIGUSR2 arrived, the listener is closed
\* and GraceStop has been called but has not completed.
C9_Witness ==
  /\ \E i \in 1..Len(steps) : steps[i] = "pprof"
  /\ app.grace /\ ~app.exit /\ ~listening
  /\ pc[Main] = "M_loop"

\* C10: app.Start is called only after ParseConfig, the user lookup,
\* SetLevel, PrepareFile and SetFile succeeded in that order (Open returned
\* nil, and a named log file exists), and a process that ended before
\* main reached app.Start never called it.
C10_StartAfterStartup ==
  /\ app.started =>
       /\ Len(steps) >= 5
       /\ SubSeq(steps, 1, 5) = StartupOrder
       /\ rerr[Main] = "nil"
       /\ cfg.logfile # "" => fs[cfg.logfile] # 0 /\ Len(handles) >= 1
  /\ pc[Main] \in {"M_flags", "M_user", "M_level", "M_check", "M_prepare",
                    "M_setfile", "M_setfile_ret", "M_daemon", "M_pprof",
                    "R_open", "R_setout", "R_close", "O_chk", "O_make", "O_watch"}
       => ~app.started

\* C10 witness: app.Start was called with a log file named and a run-as
\* user configured.
C10_Witness ==
  /\ app.started
  /\ exited = "no"
  /\ cfg.logfile # "" /\ cfg.user
  /\ pc[Main] = "M_go"

\* Main's startup steps that come before the -check-config test.
CheckedSteps == <<"parse", "user", "level">>

\* C11: a process that ended in check-config mode has parsed the
\* configuration, looked the user up and set the level, and nothing more:
\* no log file was created or opened (the logger is as constructed, on
\* standard error, with no watcher), pprof does not listen, app.Start was
\* not called and neither the stop listener nor the reload listener was
\* started or registered.
C11_CheckConfigStartsNothing ==
  exited = "check" =>
    /\ steps = CheckedSteps
    /\ \A p \in Paths : fs[p] = 0
    /\ handles = <<>> /\ fd = NoFd /\ filename = "" /\ out = Stderr
    /\ watcherDone = NoChan /\ nWatch = 0
    /\ ~listening
    /\ ~app.started /\ ~app.grace /\ app.reloads = 0
    /\ pc[Usr2] = "U_off" /\ pc[Reload] = "L_off"
    /\ reloadChan = 0 /\ usr2Chan = 0

\* C11 witness: the process ended in check-config mode with a log file and
\* a run-as user configured, and a SIGHUP had been handled before.
C11_Witness ==
  /\ exited = "check"
  /\ cfg.logfile # "" /\ cfg.user
  /\ rerr[Hup] = "nil"

\* Where a thread that called Reopen logs its Infof line, and where it logs
\* the error line about the reopen.
InfoPos(t) == IF t = Hup THEN "H_info" ELSE "W_info"
ErrPos(t) == IF t = Hup THEN "H_err" ELSE "W_err"

\* C12: after every Reopen attempt of the SIGHUP listener or of a watcher,
\* the thread goes on to log the error line about the reopen exactly when
\* that attempt returned an error.
C12_ReopenErrorReported ==
  [][\A t \in {Hup} \cup Watchers :
       (pc[t] = InfoPos(t) /\ pc'[t] # pc[t]) =>
         ((rerr[t] = "err") <=> (pc'[t] = ErrPos(t)))]_vars

\* C12 for the SIGHUP listener alone.
C12_HupReported ==
  [][(pc[Hup] = "H_info" /\ pc'[Hup] # "H_info") =>
       ((rerr[Hup] = "err") <=> (pc'[Hup] = "H_err"))]_vars

\* Open's positions after its Reopen has returned.
OpenTail == {"O_chk", "O_close", "O_make", "O_watch"}

\* C13: Open goes on to replace the subscription after its Reopen returned,
\* with an error or without; none of its later steps, a failed watcher
\* creation and a failed watch registration included, changes the result it
\* returns (that of its Reopen), the filename, the handle, the stream or a
\* descriptor; when Open returns the channel of every earlier subscription
\* is closed, the logger's channel is a new open one, and a watcher that was
\* started is subscribed for the logger's filename with that channel; no
\* watcher is started only for the empty filename or after a failed
\* watcher creation, which was logged.
C13_OpenReturnsReopenResult ==
  [][\A t \in {Caller1} :
       /\ (pc[t] \in {"R_open", "R_close"} /\ pc'[t] \notin {"R_open", "R_setout", "R_close"})
            => pc'[t] = "O_chk" /\ rerr'[t] \in {"nil", "err"}
       /\ (pc[t] \in OpenTail /\ pc'[t] # pc[t])
            => /\ rerr'[t] = rerr[t] /\ rerr[t] \in {"nil", "err"}
               /\ filename' = filename /\ fd' = fd /\ out' = out
               /\ handles' = handles /\ fs' = fs
               /\ ~panicked'
       /\ (pc[t] = "O_watch" /\ pc'[t] = "idle")
            => /\ watcherDone' # NoChan /\ watcherDone' \notin closedCh'
               /\ \A c \in 1..nChan' : c # watcherDone' => c \in closedCh'
               /\ nWatch' # nWatch =>
                    /\ nWatch' = nWatch + 1
                    /\ wfile'[W(nWatch')] = filename /\ filename # ""
                    /\ wquit'[W(nWatch')] = watcherDone'
                    /\ pc'[W(nWatch')] = "W_sel"
               /\ nWatch' = nWatch => filename = "" \/ hist'.ioFailed]_vars

\* C13 witness: Open("a") returned nil although no watcher could be
\* created, and a Reopen of the SIGHUP listener then installed a second
\* handle.
C13_Witness ==
  /\ pc[Caller1] = "idle" /\ cnt.opens = 1 /\ rerr[Caller1] = "nil"
  /\ filename # "" /\ nWatch = 0 /\ watcherDone # NoChan
  /\ rerr[Hup] = "nil" /\ mu = Free
  /\ fd = 2 /\ out = 2 /\ handles[2].open

\* C14: every successful Reopen ends in the same state of the logger,
\* whatever came before it (a successful Reopen, a failed one, or none): a
\* handle open at the filename with the stream on it (none and standard
\* error for the empty filename) and every other handle closed; when the
\* handle it replaced was at the same filename and the file was not
\* rotated, the new handle is on that same file; a Reopen that finds a file
\* at the path opens that file in place, a failed Reopen changes neither
\* the handle nor a file, and no step removes lines from a file.
C14_ReopenIdempotent ==
  [][\A t \in Threads :
       /\ (pc[t] = "R_close" /\ pc'[t] = After(t))
            => /\ rerr'[t] = "nil" /\ mu' = Free
               /\ IF filename = ""
                    THEN fd' = NoFd /\ out' = Stderr
                    ELSE /\ fd' # NoFd /\ out' = fd'
                         /\ handles'[fd'].open
                         /\ handles'[fd'].path = filename
               /\ \A h \in 1..Len(handles') : h # fd' => ~handles'[h].open
               /\ ( /\ oldFd[t] # NoFd /\ fd' # NoFd
                    /\ handles[oldFd[t]].path = filename
                    /\ cnt.rots = 0 )
                    => handles'[fd'].ino = handles[oldFd[t]].ino
       /\ (pc[t] = "R_open" /\ pc'[t] = "R_setout" /\ filename # "" /\ fs[filename] # 0)
            => /\ handles'[fd'].ino = fs[filename] /\ fs' = fs
               /\ hist'.written = hist.written
       /\ (pc[t] = "R_open" /\ pc'[t] = After(t))
            => /\ fd' = fd /\ handles' = handles /\ fs' = fs
               /\ hist'.written = hist.written
       /\ hist.written \subseteq hist'.written]_vars

\* C14 witness: after Open("a") succeeded and its watch was registered, the
\* SIGHUP listener's first Reopen failed and its second succeeded: the
\* second handle is on the file of the first, which holds lines, and the
\* first handle is closed.
C14_Witness ==
  /\ cnt.opens = 1 /\ cnt.sigs = 2 /\ cnt.rots = 0
  /\ pc[Caller1] = "idle" /\ rerr[Caller1] = "nil"
  /\ nWatch = 1 /\ watches[W(1)] # {}
  /\ hist.ioFailed
  /\ pc[Hup] = "H_info" /\ rerr[Hup] = "nil" /\ signalChan = 0
  /\ Len(handles) = 2 /\ fd = 2 /\ out = 2
  /\ handles[2].ino = handles[1].ino /\ ~handles[1].open
  /\ handles[2].ino \in hist.written

\* C15: a watcher takes one event at a time, and only while it waits in its
\* select; each event taken starts one Reopen, which runs to its end before
\* the watcher does anything else; the watcher re-subscribes (its set of
\* watches changes) only in the step after that Reopen has returned, with
\* an error or without, then logs and waits again; it stops only on its
\* cancellation channel, never because a Reopen failed.
C15_OneEventAtATime ==
  [][\A w \in Watchers :
       /\ pending'[w] < pending[w]
            => /\ pc[w] = "W_sel"
               /\ \/ pc'[w] = "R_open" /\ pending'[w] = pending[w] - 1
                  \/ pc'[w] = "W_exit"
       /\ (pc'[w] = "R_open" /\ pc[w] # "R_open")
            => pc[w] = "W_sel" /\ pending'[w] = pending[w] - 1
       /\ (pc[w] \in {"R_open", "R_setout", "R_close"} /\ pc'[w] # pc[w])
            => /\ pc'[w] \in {"R_setout", "R_close", "W_sub"}
               /\ watches'[w] = watches[w] /\ pending'[w] = pending[w]
       /\ (pc[w] = "R_open" /\ pc'[w] = "W_sub") => rerr'[w] = "err"
       /\ (pc[w] = "R_close" /\ pc'[w] = "W_sub") => rerr'[w] = "nil"
       /\ (pc[w] = "W_sub" /\ pc'[w] # pc[w]) => pc'[w] = "W_info"
       /\ (pc[w] = "W_info" /\ pc'[w] # pc[w]) => pc'[w] = "W_sel"
       /\ watches'[w] # watches[w]
            => \/ pc[w] = "W_sub" /\ pc'[w] = "W_info" /\ rerr[w] \in {"nil", "err"}
               \/ pc[w] = "W_sel" /\ pc'[w] = "W_exit"
               \/ pc[w] = "W_off"
       /\ (pc'[w] = "W_exit" /\ pc[w] # "W_exit")
            => pc[w] = "W_sel" /\ wquit[w] \in closedCh]_vars

\* C15 witness: a watcher whose Reopen for one event failed has
\* re-subscribed, and has taken the next event and is calling Reopen for it.
C15_Witness ==
  \E w \in Watchers :
    /\ pc[w] = "R_open" /\ rerr[w] = "err"
    /\ watches[w] # {}
    /\ cnt.rots = 2

\* The step is one of thread t reading or writing l.filename or l.fd: Open
\* storing the filename, Reopen's open-and-swap and its read of l.fd for
\* SetOutput, Filename() for a log line, Open's read of l.filename for
\* fsWatch, Test's two reads of std.fd.
FieldAccess(t) ==
  /\ pc'[t] # pc[t]
  /\ \/ pc[t] \in {"R_open", "R_setout", "H_info", "H_err", "W_info"}
     \/ pc[t] = "O_watch"
     \/ pc[t] \in {"T_call", "T_read"}
     \/ pc[t] = "idle" /\ pc'[t] = "R_open"

\* C16: no step reads or writes the filename or the handle while another
\* thread holds the guard exclusively: the thread holds it itself, or takes
\* it in the step (the guard is free).
C16_FieldAccessGuarded ==
  [][\A t \in Threads : FieldAccess(t) => mu \in {Free, t}]_vars

\* C16 for Open's call of fsWatch alone.
C16_FsWatchGuarded ==
  [][\A t \in Threads : (FieldAccess(t) /\ pc[t] = "O_watch") => mu \in {Free, t}]_vars

\* C16 for the Test helper alone.
C16_TestGuarded ==
  [][\A t \in Threads :
       (FieldAccess(t) /\ pc[t] \in {"T_call", "T_read"}) => mu \in {Free, t}]_vars

\* C16 for Open's store, Reopen and Filename().
C16_LockedAccesses ==
  [][\A t \in Threads :
       (FieldAccess(t) /\ pc[t] \notin {"O_watch", "T_call", "T_read"})
         => mu \in {Free, t}]_vars

\* The handles the logger opened that are open.
OpenHandles == {h \in 1..Len(handles) : handles[h].open}

\* C17: while no Reopen holds the lock the only handle that may be open is
\* the current one; during a Reopen the open handles are the current one
\* and the one that Reopen replaces; the current handle is open; and the
\* handle a Reopen is about to close is still open and is not the current
\* one, so that a replaced handle is closed once.
C17_OneOpenHandle ==
  /\ mu = Free => OpenHandles \subseteq {fd}
  /\ mu # Free => OpenHandles \subseteq {fd, oldFd[mu]}
  /\ fd # NoFd => handles[fd].open
  /\ \A t \in Threads :
       (pc[t] = "R_close" /\ oldFd[t] # NoFd)
         => handles[oldFd[t]].open /\ oldFd[t] # fd /\ mu = t

\* C17 witness: two Reopens succeeded and the SIGHUP listener's last one
\* failed: the first handle is closed, the second is the current one and
\* is open.
C17_Witness ==
  /\ mu = Free
  /\ Len(handles) = 2 /\ fd = 2 /\ OpenHandles = {2}
  /\ cnt.sigs = 2 /\ signalChan = 0
  /\ pc[Hup] = "H_err" /\ rerr[Hup] = "err"

\* The managed application has been started and no stop was requested.
Running ==
  /\ Alive
  /\ pc[Main] \in {"M_go", "M_loop"}
  /\ ~app.grace

\* C18, the delivery: a SIGHUP delivered while Running leaves a signal
\* waiting for the reopen listener and one for the reload listener (a full
\* channel keeps what it holds: signals are coalesced, not lost).
C18_Delivered ==
  [][(cnt'.sigs = cnt.sigs + 1 /\ Running)
       => signalChan' > 0 /\ reloadChan' > 0]_vars

\* C18, the handling: under fair scheduling a signal waiting for a listener
\* is followed by the listener beginning a Reopen, or a ReloadConfig,
\* unless the process ends first.
C18_Handled ==
  /\ signalChan > 0 ~> (pc[Hup] = "R_open" \/ ~Alive)
  /\ reloadChan > 0 ~> (pc[Reload] = "L_reload" \/ ~Alive)

\* C18: for every SIGHUP delivered while Running a Reopen attempt and a
\* ReloadConfig attempt each begin after the delivery, under fair
\* scheduling of the listeners.
C18_NoHupLost == C18_Delivered /\ C18_Handled

\* GraceStop was requested and has not completed.
Stopping == Alive /\ app.grace /\ ~app.exit

\* What the lifecycle state rests on: main's and the stop listener's
\* positions, the end of the process, pprof, and the application's start
\* and stop.
Lifecycle ==
  <<pc[Main], pc[Usr2], exited, listening, app.started, app.grace, app.exit>>

\* C19, the stop: the stop listener takes one SIGUSR2, calls httpStop()
\* and then app.GraceStop(), and never returns to its receive; GraceStop is
\* requested by that pass only; a SIGUSR2 delivered after the first was
\* taken changes nothing but the channel.
C19_AtMostOnce ==
  [][/\ (pc'[Usr2] = "U_http" /\ pc[Usr2] # "U_http")
          => pc[Usr2] = "U_recv" /\ ~app.grace /\ usr2Chan' = usr2Chan - 1
     /\ pc[Usr2] = "U_http" => pc'[Usr2] \in {"U_http", "U_grace"}
     /\ pc[Usr2] = "U_grace" => pc'[Usr2] \in {"U_grace", "U_stopping"}
     /\ pc[Usr2] \in {"U_stopping", "U_done"} => pc'[Usr2] \in {"U_stopping", "U_done"}
     /\ (app'.grace /\ ~app.grace) => pc[Usr2] = "U_grace" /\ ~listening
     /\ (cnt'.usr2 = cnt.usr2 + 1 /\ pc[Usr2] \in {"U_http", "U_grace", "U_stopping", "U_done"})
          => Lifecycle' = Lifecycle /\ app' = app /\ pc' = pc]_vars

\* C19, rotation while stopping: the steps of the two SIGHUP listeners
\* leave the lifecycle state as it is, and take the waiting signals.
C19_RotationKeepsLifecycle ==
  [][(Stopping /\ (pc'[Hup] # pc[Hup] \/ pc'[Reload] # pc[Reload]))
       => Lifecycle' = Lifecycle]_vars

\* C19, rotation while stopping: a SIGHUP delivered during Stopping leaves
\* a signal waiting for the reopen listener and one for the reload
\* listener, and the lifecycle state as it is.
C19_RotationDelivered ==
  [][(cnt'.sigs = cnt.sigs + 1 /\ Stopping)
       => signalChan' > 0 /\ reloadChan' > 0 /\ Lifecycle' = Lifecycle]_vars

\* C19: the terminal signal is acted on at most once, and rotation signals
\* delivered during Stopping are still handled by both listeners without a
\* change of the lifecycle state.
C19_StopOnce ==
  C19_AtMostOnce /\ C19_RotationKeepsLifecycle /\ C19_RotationDelivered

\* A second SIGUSR2 waits in the channel, never taken, while GraceStop runs
\* and both SIGHUP listeners handle a signal.
C19_SecondSignalWaits ==
  /\ Stopping
  /\ cnt.usr2 = 2 /\ usr2Chan = 1 /\ pc[Usr2] = "U_stopping"
  /\ pc[Reload] = "L_reload"
  /\ pc[Hup] \in {"R_open", "R_setout", "R_close"}

\* Every Open call made has returned, and there were at least two.
OpensDone ==
  /\ cnt.opens >= 2
  /\ \A t \in Callers : pc[t] = "idle"

\* The live watchers whose cancellation channel is the logger's current one.
Survivors == {w \in LiveWatchers : wquit[w] = watcherDone}

\* C20, the channels: no cancellation channel is closed twice (the process
\* does not panic).
C20_NoDoubleClose == ~panicked

\* C20, the replaced watchers: once the Open calls have returned, every
\* live watcher whose channel is no longer the logger's has its channel
\* closed, so that it returns.
C20_ReplacedCancelled ==
  (OpensDone /\ ~panicked) =>
    \A w \in LiveWatchers : wquit[w] # watcherDone => wquit[w] \in closedCh

\* C20, the survivor: once the Open calls have returned, at most one live
\* watcher is on the logger's channel, that channel is open, and the
\* watcher is subscribed for the logger's filename.
C20_SurvivorOnFilename ==
  (OpensDone /\ ~panicked) =>
    /\ Cardinality(Survivors) <= 1
    /\ watcherDone \notin closedCh
    /\ \A w \in Survivors : wfile[w] = filename

\* C20: for any interleaving of two or more Open calls each cancellation
\* channel is closed once, every replaced watcher is cancelled, and the
\* surviving watcher is the only one and is subscribed for the final
\* filename.
C20_ConcurrentOpens ==
  /\ C20_NoDoubleClose
  /\ C20_ReplacedCancelled
  /\ C20_SurvivorOnFilename

\* C20 for Open calls that do not overlap.
C20_SequentialOpens == hist.overlap \/ C20_ConcurrentOpens

====
